---- MODULE Spec2Model ----
(***************************************************************************)
(* A model of bevy_mod_raycast (src/src/lib.rs, src/src/raycast.rs).       *)
(*                                                                         *)
(* Arithmetic.  The program computes in f32.  The model computes exactly,  *)
(* over integer coordinates: a vector is a triple <<x, y, z>> of integers, *)
(* a quotient is kept as numerator and denominator, and a unit direction   *)
(* is an integer vector `dir` together with its integer length `len`       *)
(* (the direction the program holds is dir / len).  A comparison with      *)
(* f32::EPSILON of a quantity x / len, x an integer and len <= 5, is the   *)
(* comparison of x with 0, since 0 < len * EPSILON < 1.                    *)
(***************************************************************************)
EXTENDS Integers, Sequences, FiniteSets, TLC

VARIABLES
    enabled,      \* PluginState.enabled
    components,   \* per source entity: its GlobalTransform and Camera components
    sources,      \* per source entity: the RayCastSource fields ray, intersections
    visible,      \* per target entity: Visible.is_visible
    phase,        \* position in the frame: "idle", "built", "done"
    pre,          \* `sources` as it was when the current frame began
    culled,       \* per source: the culled_list update_raycast built for it
    tri,          \* one ray_triangle_intersection experiment: inputs and results
    mesh          \* one ray_mesh_intersection call: inputs and result

vars == <<enabled, components, sources, visible, phase, pre, culled, tri, mesh>>

\* Option::None (a record, so that it compares with Some values)
None == [none |-> TRUE]

-----------------------------------------------------------------------------
(* Vec3 arithmetic (glam), exact over the integers.                        *)

Abs(x) == IF x < 0 THEN -x ELSE x

Sgn(x) == IF x < 0 THEN -1 ELSE IF x = 0 THEN 0 ELSE 1

RECURSIVE Gcd(_, _)
Gcd(a, b) == IF b = 0 THEN a ELSE Gcd(b, a % b)

Gcd3(v) == Gcd(Gcd(Abs(v[1]), Abs(v[2])), Abs(v[3]))

Sub(a, b) == <<a[1] - b[1], a[2] - b[2], a[3] - b[3]>>

Add(a, b) == <<a[1] + b[1], a[2] + b[2], a[3] + b[3]>>

Scale(k, a) == <<k * a[1], k * a[2], k * a[3]>>

Mul(a, b) == <<a[1] * b[1], a[2] * b[2], a[3] * b[3]>>

Dot(a, b) == a[1] * b[1] + a[2] * b[2] + a[3] * b[3]

Cross(a, b) ==
    <<a[2] * b[3] - a[3] * b[2],
      a[3] * b[1] - a[1] * b[3],
      a[1] * b[2] - a[2] * b[1]>>

LengthSquared(a) == Dot(a, a)

MaxElement(a) ==
    IF a[1] >= a[2] /\ a[1] >= a[3] THEN a[1]
    ELSE IF a[2] >= a[3] THEN a[2] ELSE a[3]

\* A point with rational coordinates n / d, in lowest terms with d > 0.
RatPoint(n, d) ==
    LET g == Gcd(Gcd3(n), Abs(d))
        s == Sgn(d)
    IN  [n |-> <<(s * n[1]) \div g, (s * n[2]) \div g, (s * n[3]) \div g>>,
         d |-> Abs(d) \div g]

\* A quotient num / den in lowest terms, den > 0.
Rat(num, den) ==
    LET g == Gcd(Abs(num), Abs(den))
    IN  [num |-> (Sgn(den) * num) \div g, den |-> Abs(den) \div g]

\* f32::MAX: above every distance the model computes (den = 0 marks it).
F32Max == [num |-> 1, den |-> 0]

RatLess(a, b) == a.num * b.den < b.num * a.den

RatOfInt(k) == [num |-> k, den |-> 1]

\* (p - o).length_squared() for a rational point p and an integer point o.
DistanceSquared(p, o) ==
    Rat(LengthSquared(Sub(p.n, Scale(p.d, o))), p.d * p.d)

\* Vec3::normalize: the direction of v, kept as the shortest integer vector
\* along v (exact unit vectors are not rational in general).
Normalize(v) ==
    LET g == Gcd3(v)
    IN  IF g = 0 THEN v ELSE <<v[1] \div g, v[2] \div g, v[3] \div g>>

\* Ray3d::new(origin, direction) normalizes the direction.
Ray3dNew(origin, direction) ==
    [origin |-> origin, direction |-> Normalize(direction)]

\* Triangle::from([v0, v1, v2])
TriangleFrom(vs) == [v0 |-> vs[1], v1 |-> vs[2], v2 |-> vs[3]]

-----------------------------------------------------------------------------
(* src/src/raycast.rs                                                      *)

Cull == "Cull"
Include == "Include"
Backfaces == {Cull, Include}

Geometric == [kind |-> "Geometric"]
MollerTrumbore(b) == [kind |-> "MollerTrumbore", backfaces |-> b]

\* impl Default for RaycastAlgorithm
RaycastAlgorithmDefault == MollerTrumbore(Cull)

\* Cull tests as Include does: back faces are not rejected.
DeterminantRejected_NoCulling(detI, backface_culling) == detI = 0

\* A sign slip in the Include test: front faces are rejected too.
DeterminantRejected_SignSlip(detI, backface_culling) ==
    IF backface_culling = Cull THEN detI <= 0 ELSE detI >= 0

\* determinant < EPSILON (Cull), determinant.abs() < EPSILON (Include), the
\* determinant being detI / ray.len
DeterminantRejected(detI, backface_culling) ==
    IF backface_culling = Cull THEN detI <= 0 ELSE detI = 0

raycast_moller_trumbore(ray, triangle, backface_culling) ==
    LET vector_v0_to_v1 == Sub(triangle.v1, triangle.v0)
        vector_v0_to_v2 == Sub(triangle.v2, triangle.v0)
        \* p_vec and determinant, both times ray.len
        p_vec == Cross(ray.dir, vector_v0_to_v2)
        detI == Dot(vector_v0_to_v1, p_vec)
        s == Sgn(detI)
        t_vec == Sub(ray.origin, triangle.v0)
        \* u = uN / detI, v = vN / detI, t = ray.len * tN / detI
        uN == Dot(t_vec, p_vec)
        q_vec == Cross(t_vec, vector_v0_to_v1)
        vN == Dot(ray.dir, q_vec)
        tN == Dot(vector_v0_to_v2, q_vec)
        \* ray.origin + ray.direction * t
        point_intersection ==
            RatPoint(Add(Scale(detI, ray.origin), Scale(tN, ray.dir)), detI)
        triangle_normal == Cross(vector_v0_to_v1, vector_v0_to_v2)
    IN  IF DeterminantRejected(detI, backface_culling) THEN None
        ELSE IF s * uN < 0 \/ s * uN > s * detI THEN None
        ELSE IF s * vN < 0 \/ s * (uN + vN) > s * detI THEN None
        ELSE Ray3dNew(point_intersection, triangle_normal)

raycast_geometric(ray, triangle) ==
    LET vector_v0_to_v1 == Sub(triangle.v1, triangle.v0)
        vector_v0_to_v2 == Sub(triangle.v2, triangle.v0)
        triangle_normal == Cross(vector_v0_to_v1, vector_v0_to_v2)
        \* n_dot_ray_direction times ray.len
        ndI == Dot(triangle_normal, ray.dir)
        s == Sgn(ndI)
        d == Dot(triangle_normal, triangle.v0)
        \* t = ray.len * tN / ndI
        tN == Dot(triangle_normal, ray.origin) + d
        \* ray.origin + t * ray.direction, as pN / ndI
        pN == Add(Scale(ndI, ray.origin), Scale(tN, ray.dir))
        point_intersection == RatPoint(pN, ndI)
        \* triangle_normal.dot(edge.cross(point_intersection - v)), times ndI
        Side(from, to) ==
            Dot(triangle_normal,
                Cross(Sub(to, from), Sub(pN, Scale(ndI, from))))
    IN  IF ndI = 0 THEN None
        ELSE IF s * tN < 0 THEN None
        ELSE IF s * Side(triangle.v0, triangle.v1) < 0 THEN None
        ELSE IF s * Side(triangle.v1, triangle.v2) < 0 THEN None
        ELSE IF s * Side(triangle.v2, triangle.v0) < 0 THEN None
        ELSE Ray3dNew(point_intersection, triangle_normal)

ray_triangle_intersection(ray, triangle, algorithm) ==
    IF algorithm.kind = "Geometric" THEN raycast_geometric(ray, triangle)
    ELSE raycast_moller_trumbore(ray, triangle, algorithm.backfaces)

-----------------------------------------------------------------------------
(* Ray-triangle experiments: the three algorithms on one ray and triangle, *)
(* as the tests of src/src/raycast.rs call them.                           *)

MaxOrigin == 1

\* Unit directions: the six axis directions and some of length 5.
RayDirections ==
    {[dir |-> <<1, 0, 0>>, len |-> 1], [dir |-> <<-1, 0, 0>>, len |-> 1],
     [dir |-> <<0, 1, 0>>, len |-> 1], [dir |-> <<0, -1, 0>>, len |-> 1],
     [dir |-> <<0, 0, 1>>, len |-> 1], [dir |-> <<0, 0, -1>>, len |-> 1],
     [dir |-> <<4, 3, 0>>, len |-> 5], [dir |-> <<4, 0, -3>>, len |-> 5]}

TriRays ==
    {[origin |-> <<x, y, 0>>, dir |-> d.dir, len |-> d.len] :
        x \in -MaxOrigin..MaxOrigin, y \in -MaxOrigin..MaxOrigin,
        d \in RayDirections}

\* V0, V1, V2 of the tests, one more point of their plane, one off it.
TriVertices ==
    {<<1, -1, 2>>, <<1, 2, -1>>, <<1, -1, -1>>, <<1, 2, 2>>, <<-2, 0, 1>>}

TriTriangles ==
    {TriangleFrom(<<a, b, c>>) : a \in TriVertices, b \in TriVertices,
                                 c \in TriVertices}

TriParked == [pc |-> "off"]

MeshParked == [pc |-> "off"]

FrameParked ==
    /\ enabled = TRUE
    /\ components = <<>>
    /\ sources = <<>>
    /\ visible = <<>>
    /\ phase = "off"
    /\ pre = <<>>
    /\ culled = <<>>

FrameUnchanged ==
    UNCHANGED <<enabled, components, sources, visible, phase, pre, culled>>

InitTri ==
    /\ FrameParked
    /\ mesh = MeshParked
    /\ \E r \in TriRays, t \in TriTriangles :
          tri = [pc |-> "input", ray |-> r, triangle |-> t]

\* tests::raycast_triangle_*: run ray_triangle_intersection with each algorithm
RayTriangleIntersection ==
    /\ tri.pc = "input"
    /\ tri' = [tri EXCEPT
          !.pc = "done"] @@
          [mt_cull |-> ray_triangle_intersection(tri.ray, tri.triangle,
                           MollerTrumbore(Cull)),
           mt_include |-> ray_triangle_intersection(tri.ray, tri.triangle,
                           MollerTrumbore(Include)),
           geometric |-> ray_triangle_intersection(tri.ray, tri.triangle,
                           Geometric)]
    /\ UNCHANGED mesh
    /\ FrameUnchanged

NextTri == RayTriangleIntersection

SpecTri == InitTri /\ [][NextTri]_vars

\* C3: the Geometric algorithm and Moller-Trumbore (back faces included, the
\* mode in which both accept either winding) agree on hit / no hit for every
\* ray and triangle, and report the same hit point and normal when they hit.
C3_AlgorithmsAgree ==
    tri.pc = "done" =>
        /\ (tri.geometric = None) <=> (tri.mt_include = None)
        /\ (tri.geometric # None /\ tri.mt_include # None) =>
              /\ tri.geometric.origin = tri.mt_include.origin
              /\ \/ tri.geometric.direction = tri.mt_include.direction
                 \/ tri.geometric.direction = Scale(-1, tri.mt_include.direction)

\* C10: whenever Moller-Trumbore with Cull reports a hit, Moller-Trumbore
\* with Include reports a hit with the same hit point and normal.
C10_IncludeNeverFewerThanCull ==
    (tri.pc = "done" /\ tri.mt_cull # None) => tri.mt_include = tri.mt_cull

C10_Witness ==
    /\ tri.pc = "done"
    /\ tri.mt_cull # None
    /\ tri.ray.origin # <<0, 0, 0>>
    /\ tri.ray.len = 5

-----------------------------------------------------------------------------
(* src/src/lib.rs: ray_mesh_intersection                                   *)

\* Intersection::new(ray, distance, triangle)
IntersectionNew(ray, distance, triangle) ==
    [ray |-> ray, distance |-> distance, triangle |-> triangle]

\* Mat4::project_point3 of GlobalTransform::compute_matrix(); the model's
\* transforms have a scale and a translation and no rotation.
ProjectPoint3(transform, v) == Add(Mul(transform.scale, v), transform.translation)

Min(a, b) == IF a <= b THEN a ELSE b

\* indices.chunks(3): the k-th chunk (k from 0), shorter at the end of a
\* list whose length is no multiple of 3.
Chunk(indices, k) ==
    SubSeq(indices, 3 * k + 1, Min(3 * k + 3, Len(indices)))

NumChunks(indices) == (Len(indices) + 2) \div 3

\* The body of `for index in indices.chunks(3)`, on the loop's state:
\* min (min_pick_distance_squared), pick (pick_intersection), reads (the
\* number of vertex_positions[..] reads so far), panicked (an index out of
\* bounds ended the call).
MeshLoopBody(acc, index, mesh_to_world, vertex_positions, pick_ray) ==
    LET InBounds(i) == i <= Len(index) /\ index[i] < Len(vertex_positions)
        \* the first i of 1..3 whose read panics, 4 if none does
        firstBad == IF ~InBounds(1) THEN 1
                    ELSE IF ~InBounds(2) THEN 2
                    ELSE IF ~InBounds(3) THEN 3 ELSE 4
        world_vertices ==
            [i \in 1..3 |->
                ProjectPoint3(mesh_to_world, vertex_positions[index[i] + 1])]
        nearest_vertex ==
            Min(LengthSquared(Sub(world_vertices[1], pick_ray.origin)),
                Min(LengthSquared(Sub(world_vertices[2], pick_ray.origin)),
                    LengthSquared(Sub(world_vertices[3], pick_ray.origin))))
        world_triangle == TriangleFrom(world_vertices)
        intersection ==
            ray_triangle_intersection(pick_ray, world_triangle,
                                      RaycastAlgorithmDefault)
        distance == DistanceSquared(intersection.origin, pick_ray.origin)
    IN  IF acc.panicked THEN acc
        ELSE IF firstBad <= 3 THEN
            \* index[i] or vertex_positions[vertex_index] is out of bounds
            [acc EXCEPT !.panicked = TRUE,
                        !.reads = @ + (firstBad - 1)]
        ELSE IF RatLess(acc.min, RatOfInt(nearest_vertex)) THEN
            [acc EXCEPT !.reads = @ + 3]
        ELSE IF intersection # None /\ RatLess(distance, acc.min) THEN
            [min |-> distance,
             pick |-> IntersectionNew(intersection, distance, world_triangle),
             reads |-> acc.reads + 3,
             panicked |-> FALSE]
        ELSE [acc EXCEPT !.reads = @ + 3]

RECURSIVE MeshLoop(_, _, _, _, _, _)
MeshLoop(acc, k, mesh_to_world, vertex_positions, pick_ray, indices) ==
    IF k >= NumChunks(indices) THEN acc
    ELSE MeshLoop(MeshLoopBody(acc, Chunk(indices, k), mesh_to_world,
                               vertex_positions, pick_ray),
                  k + 1, mesh_to_world, vertex_positions, pick_ray, indices)

MeshLoopStart == [min |-> F32Max, pick |-> None, reads |-> 0, panicked |-> FALSE]

\* The length check left out: every chunk is processed, a short one too.
ray_mesh_intersection_unguarded(mesh_to_world, vertex_positions, pick_ray, indices) ==
    MeshLoop(MeshLoopStart, 0, mesh_to_world, vertex_positions, pick_ray, indices)

\* The call's outcome: the loop's state at its end; .pick is the value
\* returned unless .panicked.
ray_mesh_intersection(mesh_to_world, vertex_positions, pick_ray, indices) ==
    IF Len(indices) % 3 = 0
    THEN MeshLoop(MeshLoopStart, 0, mesh_to_world, vertex_positions, pick_ray,
                  indices)
    ELSE MeshLoopStart

-----------------------------------------------------------------------------
(* ray_mesh_intersection calls on bounded inputs.                          *)

MaxTriangles == 2

\* A small far triangle (the tests' triangle, moved to x = 3) and a large
\* near one (the same shape four times larger, at x = 2).
MeshVertexPositions ==
    <<(<<3, -1, 2>>), (<<3, 2, -1>>), (<<3, -1, -1>>),
      (<<2, -4, 8>>), (<<2, 8, -4>>), (<<2, -4, -4>>)>>

MeshVertexBuffers == {MeshVertexPositions, <<>>}

\* Index triples: the far triangle, the near one, the far one with its
\* winding reversed, and one mixing both.
MeshFaces == {<<0, 1, 2>>, <<3, 4, 5>>, <<2, 1, 0>>, <<0, 4, 2>>}

RECURSIVE FaceLists(_)
FaceLists(n) ==
    IF n = 0 THEN {<<>>}
    ELSE LET shorter == FaceLists(n - 1)
         IN  shorter \cup {l \o f : l \in {x \in shorter : Len(x) = 3 * (n - 1)},
                                    f \in MeshFaces}

\* Up to two more indices after the whole triples; 6 is out of bounds.
MeshTails == {<<>>} \cup {<<a>> : a \in {0, 6}} \cup {<<a, b>> : a, b \in {0, 6}}

MeshIndexLists == {l \o t : l \in FaceLists(MaxTriangles), t \in MeshTails}

MeshTransforms ==
    {[scale |-> <<1, 1, 1>>, translation |-> <<0, 0, 0>>],
     [scale |-> <<2, 2, 2>>, translation |-> <<-1, 0, 0>>]}

MeshRays ==
    {[origin |-> <<0, 0, 0>>, dir |-> <<1, 0, 0>>, len |-> 1],
     [origin |-> <<4, 0, 0>>, dir |-> <<1, 0, 0>>, len |-> 1],
     [origin |-> <<0, 0, 0>>, dir |-> <<4, 3, 0>>, len |-> 5]}

InitMesh ==
    /\ FrameParked
    /\ tri = TriParked
    /\ \E m \in MeshTransforms, v \in MeshVertexBuffers, r \in MeshRays,
          i \in MeshIndexLists :
          mesh = [pc |-> "input", mesh_to_world |-> m, vertex_positions |-> v,
                  pick_ray |-> r, indices |-> i]

RayMeshIntersection ==
    /\ mesh.pc = "input"
    /\ mesh' = [mesh EXCEPT !.pc = "done"] @@
          [out |-> ray_mesh_intersection(mesh.mesh_to_world,
                       mesh.vertex_positions, mesh.pick_ray, mesh.indices)]
    /\ UNCHANGED tri
    /\ FrameUnchanged

NextMesh == RayMeshIntersection

SpecMesh == InitMesh /\ [][NextMesh]_vars

\* The hits of the triangle test on every triangle of the mesh, as squared
\* distances from the ray origin.
MeshHitDistances(m) ==
    {DistanceSquared(
        ray_triangle_intersection(m.pick_ray,
            TriangleFrom([i \in 1..3 |->
                ProjectPoint3(m.mesh_to_world,
                              m.vertex_positions[m.indices[3 * k + i] + 1])]),
            RaycastAlgorithmDefault).origin,
        m.pick_ray.origin) :
     k \in {j \in 0..(Len(m.indices) \div 3 - 1) :
              ray_triangle_intersection(m.pick_ray,
                  TriangleFrom([i \in 1..3 |->
                      ProjectPoint3(m.mesh_to_world,
                                    m.vertex_positions[m.indices[3 * j + i] + 1])]),
                  RaycastAlgorithmDefault) # None}}

\* C2: on a mesh whose index count is a multiple of 3, ray_mesh_intersection
\* returns absent only if no triangle is hit, and otherwise the hit whose
\* squared distance is the smallest among the hits on all triangles.
C2_ClosestHit ==
    (/\ mesh.pc = "done"
     /\ Len(mesh.indices) % 3 = 0
     /\ ~mesh.out.panicked) =>
        LET hits == MeshHitDistances(mesh)
        IN  /\ (mesh.out.pick = None) <=> (hits = {})
            /\ mesh.out.pick # None =>
                  /\ mesh.out.pick.distance \in hits
                  /\ \A h \in hits : ~RatLess(h, mesh.out.pick.distance)

\* C9: on an index list whose length is not a multiple of 3,
\* ray_mesh_intersection returns absent, reads no vertex and does not panic.
C9_BadIndexCount ==
    (mesh.pc = "done" /\ Len(mesh.indices) % 3 # 0) =>
        /\ mesh.out.pick = None
        /\ mesh.out.reads = 0
        /\ ~mesh.out.panicked

C9_Witness ==
    /\ mesh.pc = "done"
    /\ Len(mesh.indices) = 5
    /\ mesh.vertex_positions # <<>>
    /\ SubSeq(mesh.indices, 1, 3) = <<0, 1, 2>>
    /\ mesh.pick_ray.origin = <<0, 0, 0>>
    /\ mesh.pick_ray.len = 1
    /\ mesh.mesh_to_world.scale = <<1, 1, 1>>

-----------------------------------------------------------------------------
(* The scene: ray sources and ray cast targets.                            *)

Screenspace == "Screenspace"
Transform == "Transform"

SourceEntities == {"s1", "s2"}

\* RayCastSource::new() for s1, RayCastSource::new_transform_empty() for s2
RayCastSourceNew(s) ==
    [cast_method |-> IF s = "s1" THEN Screenspace ELSE Transform,
     ray |-> None,
     intersections |-> <<>>]

\* The GlobalTransforms a source entity may carry, each given by its
\* translation and the unit direction its rotation gives the ray.
AlongX == [translation |-> <<0, 0, 0>>, dir |-> <<1, 0, 0>>, len |-> 1]

Slanted == [translation |-> <<0, 0, 0>>, dir |-> <<4, 3, 0>>, len |-> 5]

SourceTransforms == {AlongX, Slanted}

\* The GlobalTransforms the application gives each source entity.
SourceTransformsOf(s) == IF s = "s1" THEN {AlongX, Slanted} ELSE {Slanted}

\* Ray3d::from_transform(transform.compute_matrix())
Ray3dFromTransform(transform) ==
    [origin |-> transform.translation, dir |-> transform.dir, len |-> transform.len]

\* Ray3d::from_screenspace(cursor_pos_screen, windows, camera, camera_transform):
\* absent for a window that gives no ray, else the ray through the camera.
Ray3dFromScreenspace(window_ok, camera_transform) ==
    IF window_ok THEN Ray3dFromTransform(camera_transform) ELSE None

TargetEntities == {"e1", "e2", "e3"}

\* The mesh of the tests of raycast.rs: one triangle, in the plane x = 1.
TestMesh ==
    [vertex_positions |-> <<(<<1, -1, 2>>), (<<1, 2, -1>>), (<<1, -1, -1>>)>>,
     indices |-> <<0, 1, 2>>]

\* The components of the targets: Handle<Mesh> resolved to its asset,
\* GlobalTransform, and Option<BoundVol> with its Option<BoundingSphere>.
\*   e1: at x = 6, with a bounding sphere;
\*   e2: three times larger, at x = 3, without a bounding volume;
\*   e3: at x = -1, with a bounding volume whose sphere is not yet computed.
Targets ==
    [e \in TargetEntities |->
        IF e = "e1" THEN
            [mesh |-> TestMesh,
             transform |-> [scale |-> <<1, 1, 1>>, translation |-> <<5, 0, 0>>],
             bound_vol |-> [sphere |-> [origin |-> <<1, 0, 0>>, radius |-> 3]]]
        ELSE IF e = "e2" THEN
            [mesh |-> TestMesh,
             transform |-> [scale |-> <<3, 3, 3>>, translation |-> <<0, 0, 0>>],
             bound_vol |-> None]
        ELSE
            [mesh |-> TestMesh,
             transform |-> [scale |-> <<1, 1, 1>>, translation |-> <<-2, 0, 0>>],
             bound_vol |-> [sphere |-> None]]]

RECURSIVE Perms(_)
\* The orders in which a query may iterate over the entities S.  Within a
\* frame culling_query and mesh_query walk the same archetypes, so both
\* meet the targets in the same order.
Perms(S) ==
    IF S = {} THEN {<<>>}
    ELSE UNION {{<<x>> \o p : p \in Perms(S \ {x})} : x \in S}

SourceOrders == Perms(SourceEntities)

TargetOrders == Perms(TargetEntities)

-----------------------------------------------------------------------------
(* src/src/lib.rs: build_rays                                              *)

\* `return` out of the system, in place of a value of the match
Return == [returned |-> TRUE]

\* The value of the `match` of build_rays for one source: the new ray
\* (None or a ray), or Return where the code returns from the system.
BuildRay(pick_source, transform, camera, window_ok) ==
    IF pick_source.cast_method = Screenspace THEN
        IF ~camera THEN Return
        ELSE IF transform = None THEN Return
        ELSE Ray3dFromScreenspace(window_ok, transform)
    ELSE
        IF transform = None THEN Return
        ELSE Ray3dFromTransform(transform)

RECURSIVE BuildRaysLoop(_, _, _, _)
\* for (mut pick_source, transform, camera) in pick_source_query.iter_mut()
BuildRaysLoop(srcs, comps, order, window_ok) ==
    IF order = <<>> THEN srcs
    ELSE LET s == Head(order)
             ray == BuildRay(srcs[s], comps[s].transform, comps[s].camera,
                             window_ok)
         IN  IF ray = Return THEN srcs
             ELSE BuildRaysLoop([srcs EXCEPT ![s].ray = ray], comps,
                                Tail(order), window_ok)

-----------------------------------------------------------------------------
(* src/src/lib.rs: update_raycast                                          *)

\* det of the broad phase, times 10000 * ray.len^2: 1.01 is 101 / 100 and
\* the ray's direction is ray.dir / ray.len.
SphereDiscriminant(ray, sphere, transform) ==
    LET scaled_radius100 == 101 * sphere.radius * MaxElement(transform.scale)
        translated_origin ==
            Add(Mul(sphere.origin, transform.scale), transform.translation)
        oc == Sub(ray.origin, translated_origin)
    IN  10000 * Dot(ray.dir, oc) * Dot(ray.dir, oc)
        - ray.len * ray.len
          * (10000 * LengthSquared(oc) - scaled_radius100 * scaled_radius100)

\* An undefined sphere culls the target.
BoundHit_UndefinedCulls(ray, bound_vol, transform) ==
    IF bound_vol # None
    THEN IF bound_vol.sphere # None
         THEN SphereDiscriminant(ray, bound_vol.sphere, transform) >= 0
         ELSE FALSE
    ELSE TRUE

\* bound_hit of the culling closure
BoundHit(ray, bound_vol, transform) ==
    IF bound_vol # None
    THEN IF bound_vol.sphere # None
         THEN SphereDiscriminant(ray, bound_vol.sphere, transform) >= 0
         ELSE TRUE
    ELSE TRUE

\* The visibility flag is not read.
Culled_IgnoresVisible(ray, vis, entity) ==
    BoundHit(ray, Targets[entity].bound_vol, Targets[entity].transform)

\* The culling closure's value for one entity: Some(entity) or None
Culled(ray, vis, entity) ==
    vis[entity]
    /\ BoundHit(ray, Targets[entity].bound_vol, Targets[entity].transform)

\* culled_list: culling_query.iter().map(..).filter_map(..).collect()
CulledList(ray, vis, order) ==
    SelectSeq(order, LAMBDA entity : Culled(ray, vis, entity))

SeqContains(seq, x) == \E i \in 1..Len(seq) : seq[i] = x

\* The narrow phase on one target, for each ray a source may hold.
MeshPick ==
    [ray \in {Ray3dFromTransform(t) : t \in SourceTransforms},
     entity \in TargetEntities |->
        ray_mesh_intersection(Targets[entity].transform,
                              Targets[entity].mesh.vertex_positions,
                              ray,
                              Targets[entity].mesh.indices).pick]

RECURSIVE Picks(_, _, _)
\* mesh_query.iter().filter(culled_list.contains).filter_map(..).collect()
Picks(ray, culled_list, order) ==
    IF order = <<>> THEN <<>>
    ELSE LET entity == Head(order)
             rest == Picks(ray, culled_list, Tail(order))
         IN  IF SeqContains(culled_list, entity) /\ MeshPick[ray, entity] # None
             THEN <<(<<entity, MeshPick[ray, entity]>>)>> \o rest
             ELSE rest

\* a.1.distance().partial_cmp(&b.1.distance()) is Less
DistanceLess(a, b) == RatLess(a[2].distance, b[2].distance)

RECURSIVE InsertByDistance(_, _)
\* x put behind every element that is not farther than x
InsertByDistance(sorted, x) ==
    IF sorted = <<>> THEN <<x>>
    ELSE IF DistanceLess(x, Head(sorted)) THEN <<x>> \o sorted
    ELSE <<Head(sorted)>> \o InsertByDistance(Tail(sorted), x)

RECURSIVE StableSort(_)
StableSort(picks) ==
    IF picks = <<>> THEN <<>>
    ELSE InsertByDistance(StableSort(SubSeq(picks, 1, Len(picks) - 1)),
                          picks[Len(picks)])

\* The sort left out.
SortByDistance_Skipped(picks) == picks

\* picks.sort_by(..): a stable sort by distance
SortByDistance(picks) == StableSort(picks)

\* The body of `if let Some(ray) = pick_source.ray` for one source
RaycastSource(pick_source, vis, cull_order, mesh_order) ==
    [pick_source EXCEPT
        !.intersections =
            SortByDistance(
                Picks(pick_source.ray,
                      CulledList(pick_source.ray, vis, cull_order),
                      mesh_order))]

-----------------------------------------------------------------------------
(* The frames: build_rays, then update_raycast (DefaultRaycastingPlugin),  *)
(* and between two frames the application's changes to the world.          *)

NoCulledLists == [s \in SourceEntities |-> None]

Init ==
    /\ enabled = TRUE                           \* PluginState::default()
    /\ components = [s \in SourceEntities |-> [transform |-> None, camera |-> FALSE]]
    /\ sources = [s \in SourceEntities |-> RayCastSourceNew(s)]
    /\ visible = [e \in TargetEntities |-> TRUE]
    /\ phase = "idle"
    /\ pre = sources
    /\ culled = NoCulledLists
    /\ tri = TriParked
    /\ mesh = MeshParked

BetweenFrames == phase \in {"idle", "done"}

\* What every change of the world between two frames does to the
\* bookkeeping of the frame.
WorldChanged ==
    /\ phase' = "idle"
    /\ pre' = sources
    /\ culled' = NoCulledLists
    /\ UNCHANGED <<sources, tri, mesh>>

SetEnabled ==
    /\ BetweenFrames
    /\ enabled' = ~enabled
    /\ UNCHANGED <<components, visible>>
    /\ WorldChanged

SetVisible(e) ==
    /\ BetweenFrames
    /\ visible' = [visible EXCEPT ![e] = ~@]
    /\ UNCHANGED <<enabled, components>>
    /\ WorldChanged

\* The source entity gets, loses or changes its GlobalTransform.
SetGlobalTransform(s, t) ==
    /\ BetweenFrames
    /\ components[s].transform # t
    /\ components' = [components EXCEPT ![s].transform = t]
    /\ UNCHANGED <<enabled, visible>>
    /\ WorldChanged

\* The source entity gets or loses its Camera; build_rays reads it for a
\* Screenspace source only.
SetCamera(s) ==
    /\ BetweenFrames
    /\ sources[s].cast_method = Screenspace
    /\ components' = [components EXCEPT ![s].camera = ~@]
    /\ UNCHANGED <<enabled, visible>>
    /\ WorldChanged

BuildRays ==
    /\ BetweenFrames
    /\ \E order \in SourceOrders, window_ok \in BOOLEAN :
          sources' = BuildRaysLoop(sources, components, order, window_ok)
    /\ pre' = sources
    /\ culled' = NoCulledLists
    /\ phase' = "built"
    /\ UNCHANGED <<enabled, components, visible, tri, mesh>>

UpdateRaycast ==
    /\ phase = "built"
    /\ \E order \in TargetOrders :
          IF ~enabled
          THEN UNCHANGED <<sources, culled>>
          ELSE /\ sources' =
                    [s \in SourceEntities |->
                        IF sources[s].ray # None
                        THEN RaycastSource(sources[s], visible, order, order)
                        ELSE sources[s]]
               /\ culled' =
                    [s \in SourceEntities |->
                        IF sources[s].ray # None
                        THEN CulledList(sources[s].ray, visible, order)
                        ELSE None]
    /\ phase' = "done"
    /\ UNCHANGED <<enabled, components, visible, pre, tri, mesh>>

Next ==
    \/ SetEnabled
    \/ \E e \in TargetEntities : SetVisible(e)
    \/ \E s \in SourceEntities :
          \E t \in SourceTransformsOf(s) \cup {None} : SetGlobalTransform(s, t)
    \/ \E s \in SourceEntities : SetCamera(s)
    \/ BuildRays
    \/ UpdateRaycast

Spec == Init /\ [][Next]_vars

-----------------------------------------------------------------------------
(* Properties of the frames.                                               *)

\* The source lacks what build_rays needs: the Camera of a Screenspace
\* source, or the GlobalTransform of any source.
PreconditionError(s) ==
    \/ sources[s].cast_method = Screenspace /\ ~components[s].camera
    \/ components[s].transform = None

\* update_raycast has just recomputed the intersections of source s.
Recomputed(s) == phase = "done" /\ enabled /\ sources[s].ray # None

Entities(intersections) ==
    {intersections[i][1] : i \in 1..Len(intersections)}

\* C1: after update_raycast has run for a source whose ray is defined, the
\* source's intersections are in order of non-decreasing distance: no entry
\* is nearer than the entry before it.
C1_SortedByDistance ==
    \A s \in SourceEntities :
        Recomputed(s) =>
            \A i \in 1..(Len(sources[s].intersections) - 1) :
                ~DistanceLess(sources[s].intersections[i + 1],
                              sources[s].intersections[i])

\* All three targets hit, the queries having met the farthest one first.
C1_Witness ==
    \E s \in SourceEntities :
        /\ Recomputed(s)
        /\ culled[s] = <<"e1", "e2", "e3">>
        /\ Len(sources[s].intersections) = 3

\* C4: in the broad phase a visible target without bounding volume, or with
\* one whose sphere is undefined, is in the culled list of every source ray;
\* a visible target is left out only if it has a sphere and the
\* discriminant of the ray and the sphere is negative.
C4_NoFalseNegatives ==
    \A s \in SourceEntities :
        Recomputed(s) =>
            \A e \in TargetEntities :
                LET b == Targets[e].bound_vol
                    undefined == b = None \/ b.sphere = None
                IN  visible[e] =>
                      /\ undefined => SeqContains(culled[s], e)
                      /\ ~SeqContains(culled[s], e) =>
                            /\ ~undefined
                            /\ SphereDiscriminant(sources[s].ray, b.sphere,
                                                  Targets[e].transform) < 0

\* The target with a sphere is culled, the ones without are not, one source
\* ray passing its sphere and the other missing it.
C4_Witness ==
    /\ Recomputed("s1") /\ Recomputed("s2")
    /\ \A e \in TargetEntities : visible[e]
    /\ culled["s1"] = <<"e3", "e1", "e2">>
    /\ ~SeqContains(culled["s2"], "e1")
    /\ SeqContains(culled["s2"], "e2") /\ SeqContains(culled["s2"], "e3")

\* C5: a frame with PluginState.enabled false leaves the ray and the
\* intersections of every source as they were before the frame.
C5_DisabledFrameUntouched ==
    (phase = "done" /\ ~enabled) => sources = pre

\* C6: after a frame in which a source lacks its Camera or GlobalTransform,
\* the source's intersections are those it had before the frame.
C6_FailedFrameKeepsIntersections ==
    phase = "done" =>
        \A s \in SourceEntities :
            PreconditionError(s) =>
                sources[s].intersections = pre[s].intersections

\* C7: after a frame in which a source lacks its Camera (Screenspace) or
\* its GlobalTransform, the source's ray is absent.
C7_RayAbsentAfterError ==
    phase = "done" =>
        \A s \in SourceEntities :
            PreconditionError(s) => sources[s].ray = None

\* C8, as stated: after update_raycast no source's intersections hold a
\* target that is not visible.
C8_NoInvisibleTarget ==
    phase = "done" =>
        \A s \in SourceEntities :
            \A e \in Entities(sources[s].intersections) : visible[e]

\* C8, amended: the intersections update_raycast has recomputed for a source
\* (the plugin enabled, the source's ray defined) hold no target that is not
\* visible.
C8_NoInvisibleTargetRecomputed ==
    \A s \in SourceEntities :
        Recomputed(s) =>
            \A e \in Entities(sources[s].intersections) : visible[e]

\* Hidden targets that the ray hits, one with a bounding sphere and one
\* without a bounding volume; the third target is reported.
C8_Witness ==
    /\ Recomputed("s1")
    /\ sources["s1"].ray = Ray3dFromTransform(AlongX)
    /\ ~visible["e1"] /\ ~visible["e2"] /\ visible["e3"]
    /\ MeshPick[sources["s1"].ray, "e1"] # None
    /\ MeshPick[sources["s1"].ray, "e2"] # None
    /\ Entities(sources["s1"].intersections) = {"e3"}

-----------------------------------------------------------------------------
(* Properties of the algorithms on the tests' scenario, and of the rays    *)
(* and hits of a frame.                                                    *)

\* tests: Ray3d::new(Vec3::ZERO, Vec3::X)
TestRay == [origin |-> <<0, 0, 0>>, dir |-> <<1, 0, 0>>, len |-> 1]

\* tests: Triangle::from([V0, V1, V2]) and Triangle::from([V2, V1, V0])
TestTriangle == TriangleFrom(<<(<<1, -1, 2>>), (<<1, 2, -1>>), (<<1, -1, -1>>)>>)

TestTriangleReversed ==
    TriangleFrom(<<(<<1, -1, -1>>), (<<1, 2, -1>>), (<<1, -1, 2>>)>>)

\* tests: Some(Ray3d::new([1.0, 0.0, 0.0].into(), [-1.0, 0.0, 0.0].into()))
TestHit == Ray3dNew(RatPoint(<<1, 0, 0>>, 1), <<-1, 0, 0>>)

\* The sign of the determinant of Moller-Trumbore for a ray and a triangle.
DeterminantSign(ray, triangle) ==
    Sgn(Dot(Sub(triangle.v1, triangle.v0),
            Cross(ray.dir, Sub(triangle.v2, triangle.v0))))

\* C11: for the ray from (0,0,0) along (1,0,0) and the triangle (1,-1,2),
\* (1,2,-1), (1,-1,-1), Moller-Trumbore with Include and the Geometric
\* algorithm report the hit point (1,0,0) with normal direction (-1,0,0);
\* Moller-Trumbore with Cull reports no hit on the triangle with its winding
\* reversed, nor on any triangle whose determinant is negative.
C11_TestScenario ==
    tri.pc = "done" =>
        /\ (tri.ray = TestRay /\ tri.triangle = TestTriangle) =>
              /\ tri.mt_include = TestHit
              /\ tri.geometric = TestHit
        /\ (tri.ray = TestRay /\ tri.triangle = TestTriangleReversed) =>
              tri.mt_cull = None
        /\ DeterminantSign(tri.ray, tri.triangle) < 0 => tri.mt_cull = None

C11_Witness ==
    /\ tri.pc = "done"
    /\ tri.ray = TestRay
    /\ tri.triangle = TestTriangleReversed
    /\ DeterminantSign(tri.ray, tri.triangle) < 0
    /\ tri.mt_include # None

\* C12: raycast_geometric reports no hit when the plane of the triangle is
\* behind the ray origin (the t of origin + t * direction on the plane is
\* negative), and a hit point it reports lies on the plane of the triangle.
C12_GeometricOnPlaneAhead ==
    tri.pc = "done" =>
        LET normal == Cross(Sub(tri.triangle.v1, tri.triangle.v0),
                            Sub(tri.triangle.v2, tri.triangle.v0))
            \* t = ray.len * ahead / along
            ahead == Dot(normal, Sub(tri.triangle.v0, tri.ray.origin))
            along == Dot(normal, tri.ray.dir)
        IN  /\ (along # 0 /\ Sgn(along) * ahead < 0) => tri.geometric = None
            /\ tri.geometric # None =>
                  Dot(normal, Sub(tri.geometric.origin.n,
                                  Scale(tri.geometric.origin.d,
                                        tri.triangle.v0))) = 0

\* The ray build_rays gives source s from its components, if it gets to s:
\* Ray3d::from_transform, or what Ray3d::from_screenspace returns for some
\* window.
RegeneratedRays(s) ==
    IF sources[s].cast_method = Transform
    THEN {Ray3dFromTransform(components[s].transform)}
    ELSE {Ray3dFromScreenspace(w, components[s].transform) : w \in BOOLEAN}

\* C13: in every frame build_rays regenerates the ray of each source that
\* has the components it needs, whatever the other sources lack.
C13_IndependentRegeneration ==
    phase \in {"built", "done"} =>
        \A s \in SourceEntities :
            ~PreconditionError(s) => sources[s].ray \in RegeneratedRays(s)

\* C14: every intersection update_raycast stores for a source lies on the
\* forward half of the source's ray: its hit point is origin + t * direction
\* with t >= 0.
C14_HitsAhead ==
    \A s \in SourceEntities :
        Recomputed(s) =>
            \A i \in 1..Len(sources[s].intersections) :
                LET hit == sources[s].intersections[i][2].ray.origin
                IN  Dot(Sub(hit.n, Scale(hit.d, sources[s].ray.origin)),
                        sources[s].ray.dir) >= 0

====
